---------------------------- MODULE Spec2Model ----------------------------
(***************************************************************************)
(* State machine of the storyboard editor (App component and the Gemini    *)
(* service it calls).  React state is the variables; every event handler,  *)
(* promise continuation and timer is one action.  Array indices are the    *)
(* code's (0-based); At/ArraySet convert to TLA+ sequences.                *)
(*                                                                         *)
(* Encoding of JavaScript values:                                          *)
(*   - a missing or undefined string property is Undefined;                *)
(*   - sceneNumber 0 is an undefined sceneNumber;                          *)
(*   - selectedCharacterIds is <<>> when undefined and <<S>> when it is    *)
(*     the array with the members S;                                       *)
(*   - isGeneratingImage is its truthiness (undefined reads as FALSE);     *)
(*   - tag tells an object from an array hole ("hole") and from an         *)
(*     undefined/null array element ("nil");                               *)
(*                                                                         *)
(* A closure holds scene objects, not positions.  Where the model needs    *)
(* to know which object that is, it records the position the object has    *)
(* in the scenes array now (-1 once it is no longer there), and moves the  *)
(* record along when the array is filtered or replaced.                    *)
(***************************************************************************)
EXTENDS Integers, Sequences, FiniteSets, TLC

\* ---------------------------------------------------------------- bounds
\* scenes in the list (LongList: in the specification of the prompt loop)
MaxScenes == 2

LongList == 3

\* characters in the cast
MaxChars == 2

\* generation calls awaiting their answer at once
MaxReqs == 2

\* batch loops running at once
MaxBatches == 2

\* ---------------------------------------------------------------- values
Undefined == "undefined"

InitialStyle == "dark fantasy"

Styles == {"", InitialStyle}

Stories == {"", "story"}

Images == {"img1", "img2"}

GeneratedPrompts == {"", "gen"}

TypedPrompts == {"", "typed"}

Truthy(s) == s # Undefined /\ s # ""

Max(a, b) == IF a > b THEN a ELSE b

Indices == 0..(Max(MaxScenes, LongList) - 1)

PositionRange == (-1)..Max(MaxScenes, LongList)

\* ---------------------------------------------------------------- scenes
EmptyObject ==
  [tag |-> "obj", sceneNumber |-> 0, textExcerpt |-> Undefined,
   characters |-> Undefined, selectedCharacterIds |-> <<>>,
   visualPrompt |-> Undefined, imageUrl |-> Undefined,
   isGeneratingImage |-> FALSE]

HoleElem == [EmptyObject EXCEPT !.tag = "hole"]

NilElem == [EmptyObject EXCEPT !.tag = "nil"]

IsObj(s) == s.tag = "obj"

\* scenes[i]: undefined past the end and at a hole
At(arr, i) == IF i + 1 \in DOMAIN arr THEN arr[i + 1] ELSE HoleElem

\* {...s}: spreading undefined or null gives {}
Spread(s) == IF IsObj(s) THEN s ELSE EmptyObject

\* [...arr]: the array iterator yields undefined for a hole
SpreadArray(arr) ==
  [k \in DOMAIN arr |-> IF arr[k].tag = "hole" THEN NilElem ELSE arr[k]]

\* arr[i] = x: writing past the end leaves holes in between
ArraySet(arr, i, x) ==
  [k \in 1..Max(Len(arr), i + 1) |->
     IF k = i + 1 THEN x ELSE IF k \in DOMAIN arr THEN arr[k] ELSE HoleElem]

RECURSIVE FilterSeq(_, _)
\* arr.filter((_, i) => keep(i)): holes are not visited, so not kept
FilterSeq(arr, drop) ==
  IF arr = <<>> THEN <<>>
  ELSE LET rest == FilterSeq(Tail(arr), drop - 1)
       IN IF drop = 0 \/ Head(arr).tag = "hole" THEN rest
          ELSE <<Head(arr)>> \o rest

Selected(s) ==
  IF s.selectedCharacterIds = <<>> THEN {} ELSE s.selectedCharacterIds[1]

\* The render of the scene list (scenes.map skips holes): it throws on an
\* undefined or null element, and on an object without image that is not
\* generating and has no visualPrompt string to trim.
RenderThrows(sc) ==
  \E k \in DOMAIN sc :
    \/ sc[k].tag = "nil"
    \/ /\ sc[k].tag = "obj"
       /\ ~Truthy(sc[k].imageUrl)
       /\ ~sc[k].isGeneratingImage
       /\ sc[k].visualPrompt = Undefined


\* ------------------------------------------------------------- variables
VARIABLES
  style,                  \* useState style
  story,                  \* useState story
  casting,                \* useState casting: sequence of characters
  scenes,                 \* useState scenes: sequence of scene elements
  isGeneratingStoryboard, \* useState isGeneratingStoryboard
  error,                  \* useState error ("null" when null)
  reqs,                   \* generation calls awaiting the service's answer
  batches,                \* running handleGenerateAll* loops, by slot
  alert,                  \* the window.alert of the last step ("null": none)
  crashed                 \* a render threw: the component tree is unmounted

vars ==
  <<style, story, casting, scenes, isGeneratingStoryboard, error, reqs,
    batches, alert, crashed>>

\* ------------------------------------------------- closures of the loops
\* A running loop holds the scenes array of the render it was started in.
\* The model keeps of it what the loop can still read: for each element
\* after the current index, whether it is an object, whether the loop's
\* condition on imageUrl and isGeneratingImage rules it out (blocked: these
\* are only ever set on copies, so what the loop sees of them is fixed),
\* and whether visualPrompt is truthy.  at is the position the scene has
\* in the state's array now (-1: no longer there); shared tells that the
\* state holds this very object and not a copy of it: only through a
\* shared object does an edit show in the closure.
SnapElem(kind, s, pos) ==
  [tag |-> s.tag, at |-> IF IsObj(s) THEN pos ELSE -1, shared |-> IsObj(s),
   hasPrompt |-> Truthy(s.visualPrompt),
   blocked |-> kind = "image" /\ (Truthy(s.imageUrl) \/ s.isGeneratingImage)]

Snapshot(kind, sc) == [k \in DOMAIN sc |-> SnapElem(kind, sc[k], k - 1)]

IdleBatch == [kind |-> "idle", rest |-> <<>>, i |-> 0, phase |-> "idle"]

IdleBatches == [b \in 1..MaxBatches |-> IdleBatch]

\* Where the element at position pos is after
\* scenes.filter((_, i) => i !== drop), which also leaves out the holes.
AfterFilter(sc, drop) ==
  [pos \in PositionRange |->
  IF pos < 0 \/ pos >= Len(sc) \/ pos = drop \/ sc[pos + 1].tag = "hole"
  THEN -1
  ELSE pos - Cardinality({k \in 0..(pos - 1) : k = drop \/ sc[k + 1].tag = "hole"})]

\* The objects at these positions were replaced in the state by copies.
Detach(bs, positions) ==
  [b \in DOMAIN bs |->
     [bs[b] EXCEPT !.rest =
        [k \in DOMAIN bs[b].rest |->
           IF bs[b].rest[k].at \in positions
           THEN [bs[b].rest[k] EXCEPT !.shared = FALSE]
           ELSE bs[b].rest[k]]]]

\* The objects moved: move[pos] is where the one at pos is now.
MoveShared(bs, move) ==
  [b \in DOMAIN bs |->
     [bs[b] EXCEPT !.rest =
        [k \in DOMAIN bs[b].rest |->
           [bs[b].rest[k] EXCEPT
              !.at = move[bs[b].rest[k].at],
              !.shared = bs[b].rest[k].shared /\ move[bs[b].rest[k].at] >= 0]]]]

\* scene.visualPrompt = v on the object at pos itself: every closure
\* holding the object sees it
MutatePrompt(bs, pos, v) ==
  [b \in DOMAIN bs |->
     [bs[b] EXCEPT !.rest =
        [k \in DOMAIN bs[b].rest |->
           IF bs[b].rest[k].shared /\ bs[b].rest[k].at = pos
           THEN [bs[b].rest[k] EXCEPT !.hasPrompt = Truthy(v)]
           ELSE bs[b].rest[k]]]]

Positions(sc) == 0..(Len(sc) - 1)

\* The array was replaced by one of new objects.
Gone == [pos \in PositionRange |-> -1]

\* ------------------------------------------------------------ rendering
\* React renders after every state update; a render that throws unmounts
\* the tree, after which no handler exists and no update applies.
Commit(ns, nr, nb) ==
  IF RenderThrows(ns)
  THEN /\ scenes' = <<>>
       /\ reqs' = <<>>
       /\ batches' = IdleBatches
       /\ crashed' = TRUE
  ELSE /\ scenes' = ns
       /\ reqs' = nr
       /\ batches' = nb
       /\ crashed' = FALSE

Rendered(i) == ~crashed /\ i + 1 \in DOMAIN scenes /\ IsObj(scenes[i + 1])

RemoveAt(seq, k) == [j \in 1..(Len(seq) - 1) |-> IF j < k THEN seq[j] ELSE seq[j + 1]]

\* ------------------------------------------------------------ the state
Init ==
  /\ style = InitialStyle
  /\ story = ""
  /\ casting = <<>>
  /\ scenes = <<>>
  /\ isGeneratingStoryboard = FALSE
  /\ error = "null"
  /\ reqs = <<>>
  /\ batches = IdleBatches
  /\ alert = "null"
  /\ crashed = FALSE

\* ------------------------------------------------------------- alerts
\* alert(`Erro ao gerar imagem para a cena ${scene.sceneNumber}: ...`)
ImageAlert == "Erro ao gerar imagem"

\* alert(`Erro ao gerar prompt para a cena ${scene.sceneNumber}: ...`)
PromptAlert == "Erro ao gerar prompt"

ImportAlert == "Erro ao importar o projeto. Arquivo invalido."

\* ------------------------------------------------------ pending calls
\* index is the handler's argument; at is where the scene the handler read
\* (const scene = scenes[index]) is in the state's array now, -1 when it is
\* no longer there; owner is the slot of the loop awaiting the call, 0 for
\* a call started from a scene's own button.
Request(kind, i, at, owner) ==
  [kind |-> kind, index |-> i, at |-> at, owner |-> owner]

\* The pending calls are an unordered collection (any may return next):
\* the model keeps them sorted by this key.
RequestKey(r) ==
  (IF r.kind = "image" THEN 1000 ELSE 0) + 100 * r.index + 10 * r.owner + (r.at + 1)

RECURSIVE AddRequest(_, _)
AddRequest(rs, r) ==
  IF rs = <<>> THEN <<r>>
  ELSE IF RequestKey(r) <= RequestKey(Head(rs)) THEN <<r>> \o rs
  ELSE <<Head(rs)>> \o AddRequest(Tail(rs), r)

RECURSIVE MoveRequests(_, _)
\* The scenes moved: move[pos] is where the one at pos is now.
MoveRequests(rs, move) ==
  IF rs = <<>> THEN <<>>
  ELSE AddRequest(MoveRequests(Tail(rs), move),
                  [Head(rs) EXCEPT !.at = move[Head(rs).at]])

\* ------------------------------------------------- updates of one scene
\* setScenes(prev => { const n = [...prev]; n[i] = {...n[i], ...}; return n })
SetGenerating(sc, i) ==
  ArraySet(SpreadArray(sc), i,
           [Spread(At(SpreadArray(sc), i)) EXCEPT !.isGeneratingImage = TRUE])

\* A variant of StoreImage for comparison: the completion writes the list
\* back as a whole, with every other scene's generating flag reset.
StoreImageResetting(sc, i, img) ==
  [k \in 1..Max(Len(sc), i + 1) |->
     IF k = i + 1
     THEN [Spread(At(SpreadArray(sc), i)) EXCEPT
             !.imageUrl = img, !.isGeneratingImage = FALSE]
     ELSE [At(SpreadArray(sc), k - 1) EXCEPT !.isGeneratingImage = FALSE]]

StoreImage(sc, i, img) ==
  ArraySet(SpreadArray(sc), i,
           [Spread(At(SpreadArray(sc), i)) EXCEPT
              !.imageUrl = img, !.isGeneratingImage = FALSE])

ClearGenerating(sc, i) ==
  ArraySet(SpreadArray(sc), i,
           [Spread(At(SpreadArray(sc), i)) EXCEPT !.isGeneratingImage = FALSE])

StorePrompt(sc, i, p) ==
  ArraySet(SpreadArray(sc), i,
           [Spread(At(SpreadArray(sc), i)) EXCEPT !.visualPrompt = p])

\* ---------------------------------------------------- the scene list
\* The lines of the batch textarea, and String.prototype.trim on them.
Lines == {"", " ", "a", " b "}

Trim(l) == CASE l = " " -> "" [] l = " b " -> "b" [] OTHER -> l

BatchTexts == {<<" ">>, <<"a">>, <<" b ", "", "a">>}

PlainTexts == {<<"a">>, <<"a", "a">>}

\* A variant of NonBlank for comparison: the lines are not filtered.
EveryLine(text) == text

RECURSIVE NonBlank(_)
\* text.split('\n').filter(line => line.trim().length > 0)
NonBlank(text) ==
  IF text = <<>> THEN <<>>
  ELSE IF Trim(Head(text)) = "" THEN NonBlank(Tail(text))
  ELSE <<Head(text)>> \o NonBlank(Tail(text))

\* the list stays within n scenes
Fits(text, n) == Len(scenes) + Len(NonBlank(text)) <= n

NewScenes(sc, lines) ==
  [idx \in 1..Len(lines) |->
     [EmptyObject EXCEPT
        !.sceneNumber = Len(sc) + (idx - 1) + 1,
        !.textExcerpt = Trim(lines[idx]),
        !.characters = "",
        !.selectedCharacterIds = <<{}>>,
        !.visualPrompt = ""]]

handleBatchAddScenes(text) ==
  /\ ~crashed
  /\ alert' = "null"
  /\ NonBlank(text) # <<>>
  /\ LET lines == NonBlank(text)
     IN Commit(SpreadArray(scenes) \o NewScenes(scenes, lines),
               reqs, batches)
  /\ UNCHANGED <<style, story, casting, isGeneratingStoryboard, error>>

\* the trash button of a scene: setScenes(scenes.filter((_, i) => i !== index))
DeleteScene(i) ==
  /\ Rendered(i)
  /\ alert' = "null"
  /\ Commit(FilterSeq(scenes, i), MoveRequests(reqs, AfterFilter(scenes, i)),
            MoveShared(batches, AfterFilter(scenes, i)))
  /\ UNCHANGED <<style, story, casting, isGeneratingStoryboard, error>>

\* the prompt textarea's onChange: the scene object itself is assigned to
EditPrompt(i, v) ==
  /\ Rendered(i)
  /\ alert' = "null"
  /\ scenes[i + 1].visualPrompt # v
  /\ Commit([SpreadArray(scenes) EXCEPT ![i + 1].visualPrompt = v],
            reqs, MutatePrompt(batches, i, v))
  /\ UNCHANGED <<style, story, casting, isGeneratingStoryboard, error>>

\* ------------------------------------------- single-scene generation
\* the "Gerar Imagem" button, shown for a scene without image that is not
\* generating, enabled when its prompt is not blank: handleGenerateImage up
\* to its await
handleGenerateImage(i) ==
  /\ Rendered(i)
  /\ alert' = "null"
  /\ ~Truthy(scenes[i + 1].imageUrl)
  /\ ~scenes[i + 1].isGeneratingImage
  /\ Truthy(scenes[i + 1].visualPrompt)
  /\ Len(reqs) < MaxReqs
  /\ Commit(SetGenerating(scenes, i),
            AddRequest(reqs, Request("image", i, i, 0)),
            Detach(batches, {i}))
  /\ UNCHANGED <<style, story, casting, isGeneratingStoryboard, error>>

\* the "Gerar Prompt" button: handleGeneratePromptForScene up to its await
handleGeneratePromptForScene(i) ==
  /\ Rendered(i)
  /\ alert' = "null"
  /\ Len(reqs) < MaxReqs
  /\ reqs' = AddRequest(reqs, Request("prompt", i, i, 0))
  /\ UNCHANGED <<style, story, casting, scenes, isGeneratingStoryboard, error,
                 batches, crashed>>

\* the awaited call of a loop returned: the loop goes on to its pacing delay
Returned(bs, owner) ==
  IF owner = 0 THEN bs ELSE [bs EXCEPT ![owner].phase = "delay"]

\* generateImageForScene resolved: the success branch of handleGenerateImage
ImageSucceeds(k, img) ==
  /\ ~crashed
  /\ alert' = "null"
  /\ k \in DOMAIN reqs
  /\ reqs[k].kind = "image"
  /\ Commit(StoreImage(scenes, reqs[k].index, img),
            RemoveAt(reqs, k),
            Detach(Returned(batches, reqs[k].owner), {reqs[k].index}))
  /\ UNCHANGED <<style, story, casting, isGeneratingStoryboard, error>>

\* generateImageForScene rejected: the catch branch of handleGenerateImage
ImageFails(k) ==
  /\ ~crashed
  /\ alert' = ImageAlert
  /\ k \in DOMAIN reqs
  /\ reqs[k].kind = "image"
  /\ Commit(ClearGenerating(scenes, reqs[k].index),
            RemoveAt(reqs, k),
            Detach(Returned(batches, reqs[k].owner), {reqs[k].index}))
  /\ UNCHANGED <<style, story, casting, isGeneratingStoryboard, error>>

\* generatePromptForScene resolved with response.text || ""
PromptSucceeds(k, p) ==
  /\ ~crashed
  /\ alert' = "null"
  /\ k \in DOMAIN reqs
  /\ reqs[k].kind = "prompt"
  /\ Commit(StorePrompt(scenes, reqs[k].index, p),
            RemoveAt(reqs, k),
            Detach(Returned(batches, reqs[k].owner), {reqs[k].index}))
  /\ UNCHANGED <<style, story, casting, isGeneratingStoryboard, error>>

\* generatePromptForScene rejected: the catch of handleGeneratePromptForScene
\* alerts and changes no state
PromptFails(k) ==
  /\ ~crashed
  /\ alert' = PromptAlert
  /\ k \in DOMAIN reqs
  /\ reqs[k].kind = "prompt"
  /\ reqs' = RemoveAt(reqs, k)
  /\ batches' = Returned(batches, reqs[k].owner)
  /\ UNCHANGED <<style, story, casting, scenes, isGeneratingStoryboard, error,
                 crashed>>

\* ------------------------------------------------------ the batch loops
\* The loops' conditions, read from the closed-over scenes array.
Eligible(kind, e) ==
  IF kind = "image" THEN ~e.blocked /\ e.hasPrompt ELSE ~e.hasPrompt

RECURSIVE Scan(_, _, _)
\* for (; i < scenes.length; i++) if (eligible(scenes[i])) ...: where the
\* loop stops next, n elements further on.  Reading a property of
\* scenes[i] throws at a hole.
Scan(kind, rest, n) ==
  IF n >= Len(rest) THEN [res |-> "end", n |-> n]
  ELSE IF rest[n + 1].tag # "obj" THEN [res |-> "throw", n |-> n]
  ELSE IF Eligible(kind, rest[n + 1]) THEN [res |-> "call", n |-> n]
  ELSE Scan(kind, rest, n + 1)

FreeSlots == {b \in DOMAIN batches : batches[b].kind = "idle"}

FreeSlot == CHOOSE b \in FreeSlots : \A c \in FreeSlots : b <= c

\* the loop of slot b awaits its call for index i, `rest` still ahead
Running(kind, rest, i) ==
  [kind |-> kind, rest |-> rest, i |-> i, phase |-> "call"]

\* A loop stopped n elements into `rest`, at index i, and calls the handler
\* of its own render, which reads the scene from the loop's array.
BatchCall(b, kind, rest, n, i) ==
  /\ Len(reqs) < MaxReqs
  /\ LET ahead == SubSeq(rest, n + 2, Len(rest))
     IN IF kind = "image"
        THEN Commit(SetGenerating(scenes, i),
                    AddRequest(reqs, Request("image", i, rest[n + 1].at, b)),
                    Detach([batches EXCEPT ![b] = Running(kind, ahead, i)], {i}))
        ELSE /\ reqs' = AddRequest(reqs, Request("prompt", i, rest[n + 1].at, b))
             /\ batches' = [batches EXCEPT ![b] = Running(kind, ahead, i)]
             /\ UNCHANGED <<scenes, crashed>>

\* "Gerar Todas as Imagens" (shown when there are scenes): the loop up to
\* its first await; with nothing eligible it ends at once
handleGenerateAllImages ==
  /\ ~crashed
  /\ alert' = "null"
  /\ Len(scenes) > 0
  /\ FreeSlots # {}
  /\ LET snap == Snapshot("image", scenes)
         first == Scan("image", snap, 0)
     IN /\ first.res = "call"
        /\ BatchCall(FreeSlot, "image", snap, first.n, first.n)
  /\ UNCHANGED <<style, story, casting, isGeneratingStoryboard, error>>

\* "Gerar Todos os Prompts"
handleGenerateAllPrompts ==
  /\ ~crashed
  /\ alert' = "null"
  /\ Len(scenes) > 0
  /\ FreeSlots # {}
  /\ LET snap == Snapshot("prompt", scenes)
         first == Scan("prompt", snap, 0)
     IN /\ first.res = "call"
        /\ BatchCall(FreeSlot, "prompt", snap, first.n, first.n)
  /\ UNCHANGED <<style, story, casting, isGeneratingStoryboard, error>>

\* the 1500 ms timer fired and the loop found its next eligible scene
BatchContinues(b) ==
  /\ ~crashed
  /\ alert' = "null"
  /\ b \in DOMAIN batches
  /\ batches[b].phase = "delay"
  /\ LET nxt == Scan(batches[b].kind, batches[b].rest, 0)
     IN /\ nxt.res = "call"
        /\ BatchCall(b, batches[b].kind, batches[b].rest, nxt.n,
                     batches[b].i + 1 + nxt.n)
  /\ UNCHANGED <<style, story, casting, isGeneratingStoryboard, error>>

\* the timer fired and the loop ran off the end of its array, or threw
BatchEnds(b) ==
  /\ ~crashed
  /\ alert' = "null"
  /\ b \in DOMAIN batches
  /\ batches[b].phase = "delay"
  /\ Scan(batches[b].kind, batches[b].rest, 0).res # "call"
  /\ batches' = [batches EXCEPT ![b] = IdleBatch]
  /\ UNCHANGED <<style, story, casting, scenes, isGeneratingStoryboard, error,
                 reqs, crashed>>

\* ------------------------------------------------------------- the cast
Names == {"", "Ana"}

Character(id) == [id |-> id, name |-> ""]

CastIds(cast) == {cast[k].id : k \in DOMAIN cast}

ReferencedIds == UNION {Selected(scenes[k]) : k \in DOMAIN scenes}

RECURSIVE FreshFrom(_, _)
\* the least id from n on that is not in use
FreshFrom(used, n) == IF n \in used THEN FreshFrom(used, n + 1) ELSE n

\* crypto.randomUUID(): an id nothing holds yet
NewCharacterId ==
  FreshFrom(CastIds(casting) \cup ReferencedIds, 1)

RECURSIVE WithoutId(_, _)
\* casting.filter(c => c.id !== id)
WithoutId(cast, id) ==
  IF cast = <<>> THEN <<>>
  ELSE IF Head(cast).id = id THEN WithoutId(Tail(cast), id)
  ELSE <<Head(cast)>> \o WithoutId(Tail(cast), id)

\* A variant of Unselect for comparison: every selection is emptied.
UnselectAll(sc, id) ==
  [k \in DOMAIN sc |->
     IF IsObj(sc[k]) /\ sc[k].selectedCharacterIds # <<>>
     THEN [sc[k] EXCEPT !.selectedCharacterIds = <<{}>>]
     ELSE sc[k]]

\* scenes.map(s => ({...s, selectedCharacterIds:
\*                         s.selectedCharacterIds?.filter(cId => cId !== id)}))
Unselect(sc, id) ==
  [k \in DOMAIN sc |->
     IF IsObj(sc[k]) /\ sc[k].selectedCharacterIds # <<>>
     THEN [sc[k] EXCEPT !.selectedCharacterIds = <<Selected(sc[k]) \ {id}>>]
     ELSE sc[k]]

handleAddCharacter ==
  /\ ~crashed
  /\ alert' = "null"
  /\ Len(casting) < MaxChars
  /\ casting' = Append(casting, Character(NewCharacterId))
  /\ UNCHANGED <<style, story, scenes, isGeneratingStoryboard, error, reqs,
                 batches, crashed>>

handleUpdateCharacter(id, v) ==
  /\ ~crashed
  /\ alert' = "null"
  /\ \E k \in DOMAIN casting : casting[k].id = id /\ casting[k].name # v
  /\ casting' = [k \in DOMAIN casting |->
                   IF casting[k].id = id THEN [casting[k] EXCEPT !.name = v]
                   ELSE casting[k]]
  /\ UNCHANGED <<style, story, scenes, isGeneratingStoryboard, error, reqs,
                 batches, crashed>>

handleRemoveCharacter(id) ==
  /\ ~crashed
  /\ alert' = "null"
  /\ id \in CastIds(casting)
  /\ casting' = WithoutId(casting, id)
  /\ Commit(Unselect(scenes, id), reqs, Detach(batches, Positions(scenes)))
  /\ UNCHANGED <<style, story, isGeneratingStoryboard, error>>

\* a cast button of a scene card: the scene object itself is assigned to
toggleCharacterInScene(i, id) ==
  /\ Rendered(i)
  /\ alert' = "null"
  /\ id \in CastIds(casting)
  /\ LET sel == Selected(scenes[i + 1])
     IN Commit([SpreadArray(scenes) EXCEPT ![i + 1].selectedCharacterIds =
                  IF id \in sel THEN <<sel \ {id}>> ELSE <<sel \cup {id}>>],
               reqs, batches)
  /\ UNCHANGED <<style, story, casting, isGeneratingStoryboard, error>>

\* ------------------------------------------------------ the two inputs
SetStyle(v) ==
  /\ ~crashed
  /\ alert' = "null"
  /\ v # style
  /\ style' = v
  /\ UNCHANGED <<story, casting, scenes, isGeneratingStoryboard, error, reqs,
                 batches, crashed>>

SetStory(v) ==
  /\ ~crashed
  /\ alert' = "null"
  /\ v # story
  /\ story' = v
  /\ UNCHANGED <<style, casting, scenes, isGeneratingStoryboard, error, reqs,
                 batches, crashed>>

\* ----------------------------------------------------- auto-segmentation
\* What generateStoryboard resolves with: JSON.parse of a response held to
\* the schema (sceneNumber, textExcerpt, characters, visualPrompt).
Draft(n) ==
  [EmptyObject EXCEPT !.sceneNumber = n, !.textExcerpt = "excerpt",
                      !.characters = "Ana", !.visualPrompt = "gen"]

DraftLists == {<<>>, <<Draft(1), Draft(2)>>}

\* A variant of FromDrafts for comparison: the drafts as they were returned.
DraftsAsReturned(drafts) == drafts

\* generatedScenes.map(s => ({...s, selectedCharacterIds: []}))
FromDrafts(drafts) ==
  [k \in DOMAIN drafts |-> [drafts[k] EXCEPT !.selectedCharacterIds = <<{}>>]]

\* "Gerar Storyboard", disabled while generating or with a blank story:
\* handleGenerateStoryboard up to its await
handleGenerateStoryboard ==
  /\ ~crashed
  /\ alert' = "null"
  /\ ~isGeneratingStoryboard
  /\ story # ""
  /\ IF style = ""
     THEN /\ error' = "Por favor, preencha o estilo e a historia."
          /\ UNCHANGED <<isGeneratingStoryboard, scenes, reqs, batches, crashed>>
     ELSE /\ isGeneratingStoryboard' = TRUE
          /\ error' = "null"
          /\ Commit(<<>>, MoveRequests(reqs, Gone), MoveShared(batches, Gone))
  /\ UNCHANGED <<style, story, casting>>

StoryboardSucceeds(drafts) ==
  /\ ~crashed
  /\ alert' = "null"
  /\ isGeneratingStoryboard
  /\ Commit(FromDrafts(drafts), MoveRequests(reqs, Gone), MoveShared(batches, Gone))
  /\ isGeneratingStoryboard' = FALSE
  /\ UNCHANGED <<style, story, casting, error>>

StoryboardFails ==
  /\ ~crashed
  /\ alert' = "null"
  /\ isGeneratingStoryboard
  /\ error' = "Ocorreu um erro ao gerar o storyboard."
  /\ isGeneratingStoryboard' = FALSE
  /\ UNCHANGED <<style, story, casting, scenes, reqs, batches, crashed>>

\* ------------------------------------------------------ export and import
None == <<>>

Some(v) == <<v>>

\* JSON.stringify of one element of the scenes array: a hole and undefined
\* become null; an object keeps its defined properties (the identity of
\* the object is not data)
ToJSON(s) == IF IsObj(s) THEN s ELSE NilElem

\* scene.imageUrl.split(',')[1]: what follows the comma of the data URL the
\* image value stands for; undefined for a string without comma
Base64Data(url) ==
  CASE url = "img1" -> "base64 of img1"
    [] url = "img2" -> "base64 of img2"
    [] OTHER -> Undefined

\* cena_${scene.sceneNumber}.png (cena_undefined.png for sceneNumber 0)
ImageFileName(s) == s.sceneNumber

RECURSIVE ImageFiles(_)
\* handleExport's images folder, as pairs <<name, content>>: scenes.forEach
\* writes a file for each scene with an imageUrl that has base64 data, and
\* a file written under a name the folder has replaces the earlier one
ImageFiles(sc) ==
  IF sc = <<>> THEN {}
  ELSE LET earlier == ImageFiles(SubSeq(sc, 1, Len(sc) - 1))
           scene == sc[Len(sc)]
       IN IF IsObj(scene) /\ Truthy(scene.imageUrl)
             /\ Truthy(Base64Data(scene.imageUrl))
          THEN {f \in earlier : f[1] # ImageFileName(scene)}
               \cup {<<ImageFileName(scene), Base64Data(scene.imageUrl)>>}
          ELSE earlier

\* What JSON.parse(content) and the reads of the four properties give: the
\* properties that are not undefined, or throws when content is no JSON
\* text or is null.
Descriptor(st, sy, ca, sc) ==
  [throws |-> FALSE, style |-> st, story |-> sy, casting |-> ca, scenes |-> sc]

\* handleExport's storyboard-project.json:
\* JSON.stringify({ style, story, casting, scenes })
Stringify(st, sy, ca, sc) ==
  Descriptor(Some(st), Some(sy), Some(ca),
             Some([k \in DOMAIN sc |-> ToJSON(sc[k])]))

\* A variant of Parses for comparison: no file makes the try block throw.
ParsesAnything(d) == TRUE

\* the try block of reader.onload runs to its end
Parses(d) == ~d.throws

\* reader.onload of handleImport: each property the descriptor has replaces
\* the state's
ImportedStyle(d, st) == IF d.style # None THEN d.style[1] ELSE st

ImportedStory(d, sy) == IF d.story # None THEN d.story[1] ELSE sy

ImportedCasting(d, ca) == IF d.casting # None THEN d.casting[1] ELSE ca

ImportedScenes(d, sc) == IF d.scenes # None THEN d.scenes[1] ELSE sc

\* Descriptor files the user may pick: a descriptor with the cast alone,
\* one with the scenes alone, and a whole project.
FileScene ==
  [EmptyObject EXCEPT !.sceneNumber = 1, !.textExcerpt = "a", !.characters = "",
                      !.selectedCharacterIds = <<{1}>>, !.visualPrompt = "typed"]

CastOnlyFile == Descriptor(None, None, Some(<<>>), None)

ScenesOnlyFile ==
  Descriptor(None, None, None,
             Some(<<[FileScene EXCEPT !.isGeneratingImage = TRUE]>>))

ProjectFile ==
  Descriptor(Some(""), Some("story"), Some(<<Character(1)>>),
             Some(<<[FileScene EXCEPT !.imageUrl = "img1"]>>))

\* Other files: a project file cut short, which is no JSON text
\* (JSON.parse throws); the JSON text null (reading a property of it
\* throws); the JSON text 42 (it has none of the properties); and
\* {"style": 42, "story": "story"}, whose style is no string: the state
\* holds the number, written here as the string of its digits.
InvalidFile == [ProjectFile EXCEPT !.throws = TRUE]

NullFile == [Descriptor(None, None, None, None) EXCEPT !.throws = TRUE]

NumberFile == Descriptor(None, None, None, None)

WrongTypeFile == Descriptor(Some("42"), Some("story"), None, None)

Files ==
  {CastOnlyFile, ScenesOnlyFile, ProjectFile, InvalidFile, NullFile,
   NumberFile, WrongTypeFile}

\* the file input's onChange with a chosen file, and the reader's onload
handleImport(d) ==
  /\ ~crashed
  /\ IF Parses(d)
     THEN /\ alert' = "null"
          /\ style' = ImportedStyle(d, style)
          /\ story' = ImportedStory(d, story)
          /\ casting' = ImportedCasting(d, casting)
          /\ IF d.scenes # None
             THEN Commit(ImportedScenes(d, scenes), MoveRequests(reqs, Gone),
                         MoveShared(batches, Gone))
             ELSE UNCHANGED <<scenes, reqs, batches, crashed>>
     ELSE /\ alert' = ImportAlert
          /\ UNCHANGED <<style, story, casting, scenes, reqs, batches, crashed>>
  /\ UNCHANGED <<isGeneratingStoryboard, error>>

\* the user imports the storyboard-project.json of an export of this state
ImportExported ==
  handleImport(Stringify(style, story, casting, scenes))

\* --------------------------------------------------------- the program
SceneListStep(texts, n) ==
  \/ \E text \in texts : Fits(text, n) /\ handleBatchAddScenes(text)
  \/ \E i \in Indices : DeleteScene(i)

EditStep == \E i \in Indices, v \in TypedPrompts : EditPrompt(i, v)

CastStep ==
  \/ handleAddCharacter
  \/ \E id \in 1..MaxChars, v \in Names : handleUpdateCharacter(id, v)
  \/ \E id \in 1..MaxChars : handleRemoveCharacter(id)
  \/ \E i \in Indices, id \in 1..MaxChars : toggleCharacterInScene(i, id)

StoryboardStep ==
  \/ \E v \in Styles : SetStyle(v)
  \/ \E v \in Stories : SetStory(v)
  \/ handleGenerateStoryboard
  \/ \E drafts \in DraftLists : StoryboardSucceeds(drafts)
  \/ StoryboardFails

ImportStep ==
  \/ \E d \in Files : handleImport(d)
  \/ ImportExported

ImageStep(images) ==
  \/ \E i \in Indices : handleGenerateImage(i)
  \/ \E k \in 1..MaxReqs, img \in images : ImageSucceeds(k, img)
  \/ \E k \in 1..MaxReqs : ImageFails(k)

PromptStep ==
  \/ \E i \in Indices : handleGeneratePromptForScene(i)
  \/ \E k \in 1..MaxReqs, p \in GeneratedPrompts : PromptSucceeds(k, p)
  \/ \E k \in 1..MaxReqs : PromptFails(k)

LoopStep ==
  \/ \E b \in 1..MaxBatches : BatchContinues(b)
  \/ \E b \in 1..MaxBatches : BatchEnds(b)

\* Every handler, continuation and timer of the component.
Next ==
  \/ SceneListStep(BatchTexts, MaxScenes)
  \/ EditStep
  \/ CastStep
  \/ StoryboardStep
  \/ ImportStep
  \/ ImageStep(Images)
  \/ PromptStep
  \/ handleGenerateAllImages
  \/ handleGenerateAllPrompts
  \/ LoopStep

Spec == Init /\ [][Next]_vars

\* The scene list and single-scene image generation.
NextCalls ==
  \/ SceneListStep(PlainTexts, MaxScenes)
  \/ EditStep
  \/ ImageStep(Images)

SpecCalls == Init /\ [][NextCalls]_vars

\* The scene list, single-scene image generation and import.
NextSingle ==
  \/ SceneListStep(PlainTexts, MaxScenes)
  \/ EditStep
  \/ ImageStep(Images)
  \/ ImportStep

SpecSingle == Init /\ [][NextSingle]_vars

\* The scene list, single-scene image generation and the image loop, the
\* service returning one image.
NextImages ==
  \/ SceneListStep(PlainTexts, MaxScenes)
  \/ EditStep
  \/ ImageStep({"img1"})
  \/ handleGenerateAllImages
  \/ LoopStep

SpecImages == Init /\ [][NextImages]_vars

\* The scene list, single-scene prompt generation and the prompt loop,
\* started when no loop is running.
NextPrompts ==
  \/ SceneListStep(PlainTexts, LongList)
  \/ PromptStep
  \/ (FreeSlots = DOMAIN batches /\ handleGenerateAllPrompts)
  \/ LoopStep

SpecPrompts == Init /\ [][NextPrompts]_vars

\* The scene list, auto-segmentation and import.
\* the cast and the selections of batch-added scenes
NextSelection ==
  \/ SceneListStep(BatchTexts, MaxScenes)
  \/ CastStep

SpecSelection == Init /\ [][NextSelection]_vars

NextProject ==
  \/ SceneListStep(BatchTexts, LongList)
  \/ EditStep
  \/ StoryboardStep
  \/ ImportStep

SpecProject == Init /\ [][NextProject]_vars

\* The cast, the scene list, auto-segmentation and import.
NextCast ==
  \/ SceneListStep(BatchTexts, MaxScenes)
  \/ EditStep
  \/ CastStep
  \/ StoryboardStep
  \/ ImportStep

SpecCast == Init /\ [][NextCast]_vars

\* ------------------------------------------------------------- the claims
\* C1: in every reachable state every scene's selectedCharacterIds is a
\* subset of the ids of the characters in the cast.
ReferentialIntegrity ==
  \A k \in DOMAIN scenes : Selected(scenes[k]) \subseteq CastIds(casting)

\* the image calls in flight that were started for the scene now at pos
ImageRequestsFor(pos) ==
  {k \in DOMAIN reqs : reqs[k].kind = "image" /\ reqs[k].at = pos}

\* C2: in every reachable state a scene has isGeneratingImage set only
\* while exactly one image call started for it is in flight, and no scene
\* has two image calls in flight.
GeneratingOnlyInFlight ==
  \A k \in DOMAIN scenes :
    /\ Cardinality(ImageRequestsFor(k - 1)) <= 1
    /\ scenes[k].isGeneratingImage => Cardinality(ImageRequestsFor(k - 1)) = 1

\* C3: when an image call started for a scene that is still in the list
\* returns, the scene's isGeneratingImage is false afterwards, and after a
\* failed call its imageUrl is what it was before.
CompletionClearsFlag ==
  [][\A k \in DOMAIN reqs :
       (reqs[k].kind = "image" /\ reqs[k].at >= 0 /\ ~crashed') =>
         /\ ImageFails(k) =>
              /\ Len(scenes') > reqs[k].at
              /\ ~scenes'[reqs[k].at + 1].isGeneratingImage
              /\ scenes'[reqs[k].at + 1].imageUrl = scenes[reqs[k].at + 1].imageUrl
         /\ \A img \in Images : ImageSucceeds(k, img) =>
              /\ Len(scenes') > reqs[k].at
              /\ ~scenes'[reqs[k].at + 1].isGeneratingImage]_vars

\* C4: when an image call succeeds, the image becomes the imageUrl of the
\* scene the call was started for, no other scene's imageUrl or
\* isGeneratingImage changes, and the list has the entries it had.
OnlyOwnSceneChanges ==
  [][\A k \in DOMAIN reqs, img \in Images :
       (ImageSucceeds(k, img) /\ ~crashed') =>
         /\ Len(scenes') = Len(scenes)
         /\ \A p \in Positions(scenes) :
              IF p = reqs[k].at
              THEN scenes'[p + 1].imageUrl = img
              ELSE /\ scenes'[p + 1].imageUrl = scenes[p + 1].imageUrl
                   /\ scenes'[p + 1].isGeneratingImage = scenes[p + 1].isGeneratingImage]_vars

\* image call k was started for the scene that is at the call's index now
InPlace(k) == reqs[k].kind = "image" /\ reqs[k].at = reqs[k].index

\* every entry of the list is a scene object
NoGaps == \A k \in DOMAIN scenes : IsObj(scenes[k])

\* C5: with image calls in flight for two different scenes, each at its
\* call's index in a list of scene objects, the return of either call, in
\* whatever order and with whatever outcome, stores that call's result in
\* its own scene (the image and a false flag on success, a false flag and
\* the image it had on failure), changes nothing else in the list, and
\* leaves the other call in flight.
IndependentCompletions ==
  [][\A k \in DOMAIN reqs, j \in DOMAIN reqs :
       (NoGaps /\ InPlace(k) /\ InPlace(j) /\ reqs[j].index # reqs[k].index) =>
         /\ \A img \in Images : ImageSucceeds(k, img) =>
              /\ scenes' = [scenes EXCEPT ![reqs[k].index + 1].imageUrl = img,
                                          ![reqs[k].index + 1].isGeneratingImage = FALSE]
              /\ \E m \in DOMAIN reqs' : reqs'[m] = reqs[j]
         /\ ImageFails(k) =>
              /\ scenes' = [scenes EXCEPT ![reqs[k].index + 1].isGeneratingImage = FALSE]
              /\ \E m \in DOMAIN reqs' : reqs'[m] = reqs[j]]_vars

\* C5, its case: of the two scenes of a list as it was added, one has
\* the image its call returned and is no longer generating, while the other
\* is still generating with its call in flight at its own index.
OneReturnedOneInFlight ==
  /\ Len(scenes) = 2
  /\ \A p \in Positions(scenes) :
       IsObj(scenes[p + 1]) /\ scenes[p + 1].sceneNumber = p + 1
  /\ \E k \in DOMAIN reqs, p \in Positions(scenes) :
       /\ InPlace(k)
       /\ p # reqs[k].index
       /\ scenes[reqs[k].index + 1].isGeneratingImage
       /\ ~Truthy(scenes[reqs[k].index + 1].imageUrl)
       /\ scenes[p + 1].imageUrl = "img2"
       /\ ~scenes[p + 1].isGeneratingImage

\* C6: in every reachable state at most one call issued by a batch loop is
\* in flight.
OneBatchCallAtATime ==
  Cardinality({k \in DOMAIN reqs : reqs[k].owner > 0}) <= 1

\* the index the loop of slot b calls for when its timer fires
NextIndex(b) ==
  batches[b].i + 1 + Scan(batches[b].kind, batches[b].rest, 0).n

\* C7: the image loop calls handleGenerateImage for the scene at its index
\* only if it has no image, is not generating and has a non-empty prompt,
\* and an image returned to the loop never replaces an image a scene has.
ImageLoopOnlyEligible ==
  [][/\ \A b \in DOMAIN batches :
          (BatchContinues(b) /\ batches[b].kind = "image" /\ Rendered(NextIndex(b))) =>
            /\ ~Truthy(scenes[NextIndex(b) + 1].imageUrl)
            /\ ~scenes[NextIndex(b) + 1].isGeneratingImage
            /\ Truthy(scenes[NextIndex(b) + 1].visualPrompt)
     /\ \A k \in DOMAIN reqs, img \in Images :
          (ImageSucceeds(k, img) /\ reqs[k].owner > 0 /\ Rendered(reqs[k].index)) =>
            ~Truthy(scenes[reqs[k].index + 1].imageUrl)]_vars

\* C8: the prompt loop calls handleGeneratePromptForScene for the scene at
\* its index only if its visualPrompt is empty, and a prompt returned to the
\* loop never replaces a non-empty visualPrompt.
PromptLoopOnlyEmpty ==
  [][/\ \A b \in DOMAIN batches :
          (BatchContinues(b) /\ batches[b].kind = "prompt" /\ Rendered(NextIndex(b))) =>
            ~Truthy(scenes[NextIndex(b) + 1].visualPrompt)
     /\ \A k \in DOMAIN reqs, p \in GeneratedPrompts :
          (PromptSucceeds(k, p) /\ reqs[k].owner > 0 /\ Rendered(reqs[k].index)) =>
            ~Truthy(scenes[reqs[k].index + 1].visualPrompt)]_vars

\* the loop will throw at an element of `rest` that is no object, before an
\* element it would call for
AbortsEarly(kind, rest) ==
  \E h \in DOMAIN rest :
    /\ rest[h].tag # "obj"
    /\ \E e \in (h + 1)..Len(rest) :
         rest[e].tag = "obj" /\ Eligible(kind, rest[e])

\* C9: when a call of a batch loop fails, the loop goes on: nothing stops
\* it before the later scenes it is to call for.
LoopSurvivesFailure ==
  [][\A k \in DOMAIN reqs :
       (reqs[k].owner > 0 /\ (PromptFails(k) \/ ImageFails(k))) =>
         ~AbortsEarly(batches[reqs[k].owner].kind, batches[reqs[k].owner].rest)]_vars

\* C10: the project parsed from the exported descriptor of any state has
\* the style, story, cast and scenes of that state.
RoundTrip ==
  LET d == Stringify(style, story, casting, scenes)
  IN /\ ImportedStyle(d, InitialStyle) = style
     /\ ImportedStory(d, "") = story
     /\ ImportedCasting(d, <<>>) = casting
     /\ ImportedScenes(d, <<>>) = scenes

\* C11: importing a file that is no JSON text shows the import alert and
\* leaves style, story, casting and scenes as they were.
InvalidImportChangesNothing ==
  [][handleImport(InvalidFile) =>
       /\ alert' = ImportAlert
       /\ UNCHANGED <<style, story, casting, scenes>>]_vars

\* C11, its case: the import alert is up over a project that has scenes, a
\* story and a style other than the file's.
InvalidImportRefused ==
  /\ alert = ImportAlert
  /\ scenes # <<>>
  /\ scenes # ProjectFile.scenes[1]
  /\ story # ProjectFile.story[1]

\* the files that parse and are no project descriptor
Malformed == {NullFile, NumberFile, WrongTypeFile}

\* C12: importing a file that parses and has not the structure of a project
\* descriptor shows the import alert and changes none of style, story,
\* casting and scenes.
MalformedImportRefused ==
  [][\A d \in Malformed : handleImport(d) =>
       /\ alert' = ImportAlert
       /\ UNCHANGED <<style, story, casting, scenes>>]_vars

\* the entries of the list that have an image
WithImage == {k \in DOMAIN scenes : IsObj(scenes[k]) /\ Truthy(scenes[k].imageUrl)}

\* C13: in every reachable state the export's images folder has as many
\* files as there are scenes with an image, and each such scene's image is
\* the content of the file named by its sceneNumber.
OneFilePerImage ==
  /\ Cardinality(ImageFiles(scenes)) = Cardinality(WithImage)
  /\ \A k \in WithImage :
       <<scenes[k].sceneNumber, Base64Data(scenes[k].imageUrl)>> \in ImageFiles(scenes)

\* the non-blank lines of each text of the batch textarea, trimmed
Excerpts(text) ==
  CASE text = <<" ">> -> <<>>
    [] text = <<"a">> -> <<"a">>
    [] text = <<" b ", "", "a">> -> <<"b", "a">>

\* C14: batch-adding a text appends one scene per non-blank line, in line
\* order, numbered from the length of the list plus one, with the trimmed
\* line as textExcerpt, empty visualPrompt and characters, no image and an
\* empty selectedCharacterIds, and leaves the scenes before them as they
\* were; a text without non-blank line adds nothing.
BatchAddAppends ==
  [][\A text \in BatchTexts :
       /\ Excerpts(text) = <<>> => ~handleBatchAddScenes(text)
       /\ handleBatchAddScenes(text) =>
            scenes' = scenes \o
              [idx \in 1..Len(Excerpts(text)) |->
                 [tag |-> "obj", sceneNumber |-> Len(scenes) + idx,
                  textExcerpt |-> Excerpts(text)[idx], characters |-> "",
                  selectedCharacterIds |-> <<{}>>, visualPrompt |-> "",
                  imageUrl |-> Undefined, isGeneratingImage |-> FALSE]]]_vars

\* C14, its case: the text with a blank line was added after one scene.
BlankLineSkipped ==
  /\ Len(scenes) = 3
  /\ \A k \in DOMAIN scenes : scenes[k].sceneNumber = k
  /\ scenes[1].textExcerpt = "a"
  /\ scenes[2].textExcerpt = "b"
  /\ scenes[3].textExcerpt = "a"
  /\ scenes[2].visualPrompt = "" /\ scenes[2].selectedCharacterIds = <<{}>>

\* C15: removing a character takes it, and nothing else, out of the cast,
\* and takes its id, and nothing else, out of the selection of every scene
\* in the same step; the scenes that did not select it, every other field of
\* every scene, the order of the scenes and the rest of the project are as
\* they were.
RemovalIsMinimal ==
  [][\A id \in 1..MaxChars :
       handleRemoveCharacter(id) =>
         /\ casting' = SelectSeq(casting, LAMBDA c : c.id # id)
         /\ Len(casting') = Len(casting) - 1
         /\ DOMAIN scenes' = DOMAIN scenes
         /\ \A k \in DOMAIN scenes :
              IF IsObj(scenes[k])
              THEN /\ Selected(scenes'[k]) = Selected(scenes[k]) \ {id}
                   /\ id \notin Selected(scenes[k]) => scenes'[k] = scenes[k]
                   /\ \A f \in DOMAIN scenes[k] \ {"selectedCharacterIds"} :
                        scenes'[k][f] = scenes[k][f]
              ELSE scenes'[k] = scenes[k]
         /\ UNCHANGED <<style, story, isGeneratingStoryboard, error>>]_vars

\* C15, its case: the first character was removed from a cast of two, and
\* the scenes select the other one differently.
OtherSelectionsKept ==
  /\ CastIds(casting) = {2}
  /\ Len(scenes) = 2
  /\ Selected(scenes[1]) = {2}
  /\ Selected(scenes[2]) = {}

\* C16: a prompt call never returns an empty text as its result: when a
\* call returns a prompt for a scene, the visualPrompt stored in the scene
\* is not empty.
NoEmptyPromptStored ==
  [][\A k \in DOMAIN reqs, p \in GeneratedPrompts :
       (PromptSucceeds(k, p) /\ Rendered(reqs[k].index)) =>
         Truthy(scenes'[reqs[k].index + 1].visualPrompt)]_vars

\* C17: pressing the storyboard button with a style and a story empties the
\* scene list, sets isGeneratingStoryboard and clears the error before the
\* call returns; with an empty style no call is made, the list is left alone
\* and the error is set, and with an empty story the button does nothing.
\* A failed call leaves the list as it is (the scenes emptied at the start
\* are not put back), sets the error and clears the flag.  A call that
\* returns makes the list the returned drafts, in order, each with an empty
\* selectedCharacterIds, and clears the flag.
StoryboardReplacesScenes ==
  [][/\ handleGenerateStoryboard =>
          /\ story # ""
          /\ IF style # ""
             THEN scenes' = <<>> /\ isGeneratingStoryboard' /\ error' = "null"
             ELSE /\ scenes' = scenes
                  /\ ~isGeneratingStoryboard'
                  /\ error' # "null"
     /\ StoryboardFails =>
          /\ scenes' = scenes
          /\ error' # "null"
          /\ ~isGeneratingStoryboard'
     /\ \A drafts \in DraftLists :
          StoryboardSucceeds(drafts) =>
            /\ DOMAIN scenes' = DOMAIN drafts
            /\ \A k \in DOMAIN drafts :
                 /\ scenes'[k].selectedCharacterIds = <<{}>>
                 /\ \A f \in DOMAIN drafts[k] \ {"selectedCharacterIds"} :
                      scenes'[k][f] = drafts[k][f]
            /\ ~isGeneratingStoryboard']_vars

\* C17, its case: a call has returned two drafts, which are the scene list.
DraftsAreTheScenes ==
  /\ ~isGeneratingStoryboard
  /\ error = "null"
  /\ Len(scenes) = 2
  /\ \A k \in DOMAIN scenes :
       /\ scenes[k].sceneNumber = k
       /\ scenes[k].characters = "Ana"
       /\ scenes[k].visualPrompt = "gen"
       /\ scenes[k].selectedCharacterIds = <<{}>>

=============================================================================
